---- MODULE Spec2Model ----
(***************************************************************************)
(* A model of assesment.py: the conversion of the first page of a PDF      *)
(* (words, text lines, table grids and table bounding boxes as pdfplumber  *)
(* reports them) into a python-docx document.                              *)
(*                                                                         *)
(* Conventions.  Texts are sequences of one-character strings, so that     *)
(* str.strip() and the substring test of is_bold are computed.  Python's   *)
(* None is the empty tuple None and a present value v is Some(v) where an   *)
(* optional value is stored.  r, c and merge_count are 0-based as in the    *)
(* source; li and ti are 1-based positions in the TLA+ sequences lines and  *)
(* tables.  Horizontal midpoints are kept doubled: (x0 + x1)/2 and          *)
(* page.width/2 are true divisions in Python, so the comparison             *)
(* abs((x0+x1)/2 - width/2) < 20 is computed as abs((x0+x1) - width) < 40.  *)
(***************************************************************************)
EXTENDS Integers, Sequences, FiniteSets, TLC

VARIABLES
    words,          \* page.extract_words(...)
    lines,          \* page.extract_text_lines()
    tables,         \* page.extract_tables()
    table_bboxes,   \* [tb.bbox for tb in page.find_tables()]
    page,           \* the first page: [width]
    output_doc,     \* main's parameter output_doc
    doc,            \* the python-docx document body: a sequence of blocks
    pc,             \* position of the run
    li,             \* main: position of the line loop
    ti,             \* main: position of the table loop
    caller,         \* who called add_table_to_doc: "main" or "direct"
    table,          \* add_table_to_doc: parameter table
    table_words,    \* add_table_to_doc: parameter table_words
    col_widths,     \* add_table_to_doc: parameter col_widths
    r,              \* add_table_to_doc: row loop variable
    c,              \* add_table_to_doc: column loop variable
    merge_count,    \* add_table_to_doc: merge_count
    saved,          \* the file system: the set of files written
    printed         \* the console: the sequence of lines printed

vars == <<words, lines, tables, table_bboxes, page, output_doc, doc, pc, li, ti,
          caller, table, table_words, col_widths, r, c, merge_count, saved, printed>>

inputs == <<words, lines, tables, table_bboxes, page, output_doc>>

(***************************************************************************)
(* Bounds of the model.                                                    *)
(***************************************************************************)
MaxLines == 4
MaxTables == 2
MaxCells == 5

(***************************************************************************)
(* Literals of the source.                                                 *)
(***************************************************************************)
CenterTol == 20
LineThreshold == 3
TableTol == 2

(***************************************************************************)
(* Python values.                                                          *)
(***************************************************************************)
None == << >>
Some(v) == <<v>>

Abs(x) == IF x < 0 THEN -x ELSE x
Min(S) == CHOOSE x \in S : \A y \in S : x <= y
Max(S) == CHOOSE x \in S : \A y \in S : x >= y

Whitespace == {" ", "\t", "\n"}

\* sub in s
Contains(sub, s) ==
    \E i \in 1..(Len(s) - Len(sub) + 1) : SubSeq(s, i, i + Len(sub) - 1) = sub

\* s.strip()
Strip(s) ==
    LET keep == {i \in 1..Len(s) : s[i] \notin Whitespace}
    IN  IF keep = {} THEN << >> ELSE SubSeq(s, Min(keep), Max(keep))

\* bool(v) of an optional text: None and "" are falsy
Truthy(v) == v # None /\ v[1] # << >>

(***************************************************************************)
(* Helper functions.                                                       *)
(***************************************************************************)
BoldMarker == <<"B", "o", "l", "d">>

\* is_bold with fontname.startswith("Bold")
is_bold_Prefix(word) == SubSeq(word.fontname, 1, Len(BoldMarker)) = BoldMarker

is_bold(word) == Contains(BoldMarker, word.fontname)

\* is_centered with <= for <
is_centered_Inclusive(line, page_center2) ==
    Abs((line.x0 + line.x1) - page_center2) <= 2 * CenterTol

is_centered(line, page_center2) ==
    Abs((line.x0 + line.x1) - page_center2) < 2 * CenterTol

WordMatchesLine(w, line) == Abs(w.top - line.top) < LineThreshold

get_words_for_line(line, ws) ==
    SelectSeq(ws, LAMBDA w : WordMatchesLine(w, line))

\* is_line_inside_table without the tolerance
is_line_inside_table_NoTol(line, table_bbox) ==
    /\ line.top >= table_bbox.top
    /\ line.bottom <= table_bbox.bottom

is_line_inside_table(line, table_bbox) ==
    /\ line.top >= table_bbox.top - TableTol
    /\ line.bottom <= table_bbox.bottom + TableTol

(***************************************************************************)
(* The pages the extractor is run on.  Words, lines and tables are taken   *)
(* from one page layout (page order, top to bottom); a run sees a           *)
(* subsequence of its lines and of its tables.                             *)
(***************************************************************************)
Word(text, top, bottom, x0, x1, fontname) ==
    [text |-> text, top |-> top, bottom |-> bottom, x0 |-> x0, x1 |-> x1,
     fontname |-> fontname]

Line(top, bottom, x0, x1) == [top |-> top, bottom |-> bottom, x0 |-> x0, x1 |-> x1]

BBox(x0, top, x1, bottom) == [x0 |-> x0, top |-> top, x1 |-> x1, bottom |-> bottom]

FontBold == <<"T", "-", "B", "o", "l", "d">>
FontRoman == <<"T", "-", "R", "o", "m">>

TxtTitle == <<"T", "I", "T", "L", "E">>
TxtBody == <<"B", "o", "d", "y">>
TxtText == <<"t", "e", "x", "t">>
TxtSub == <<"s", "u", "b">>
TxtSee == <<"s", "e", "e">>
TxtEdge == <<"e", "d", "g", "e">>
TxtH1 == <<"H", "1">>
TxtH2 == <<"H", "2">>
TxtNote == <<"n", "o", "t", "e">>
TxtV1 == <<"v", "1">>
TxtEnd == <<"e", "n", "d">>
TxtA == <<"A">>
TxtB == <<"B">>

LineTitle == Line(10, 20, 80, 120)
LineBody == Line(30, 40, 10, 60)
LineSee == Line(47, 54, 99, 140)
LineEdge == Line(48, 72, 12, 100)
LineH == Line(52, 58, 12, 80)
LineNote == Line(52, 58, 130, 190)
LineV == Line(62, 68, 12, 30)
LineEnd == Line(65, 73, 100, 140)
LineBlank == Line(90, 96, 10, 60)

LinePool ==
    << LineTitle, LineBody, LineSee, LineEdge, LineH, LineNote, LineV, LineEnd,
       LineBlank >>

GridH == << <<Some(TxtH1), Some(TxtH2)>>, <<Some(TxtV1), None>> >>
GridWide == << <<None, Some(TxtA), None, Some(TxtB)>> >>
GridSpan == << <<Some(TxtA), None, None>>, <<Some(<< >>), Some(TxtB), None>> >>
GridEmpty == << >>

BBoxH == BBox(10, 50, 110, 70)
BBoxWide == BBox(10, 76, 190, 86)
BBoxSpan == BBox(10, 100, 190, 120)
BBoxEmpty == BBox(10, 130, 190, 140)

TablePool ==
    << [grid |-> GridH, bbox |-> BBoxH],
       [grid |-> GridWide, bbox |-> BBoxWide],
       [grid |-> GridSpan, bbox |-> BBoxSpan],
       [grid |-> GridEmpty, bbox |-> BBoxEmpty] >>

\* the words of the layout, in page order, each with the lines and the tables
\* it is part of
PageLayout ==
    << [word |-> Word(TxtTitle, 10, 20, 80, 120, FontBold),
        lines |-> {LineTitle}, boxes |-> {}],
       [word |-> Word(TxtBody, 30, 40, 10, 30, FontRoman),
        lines |-> {LineBody}, boxes |-> {}],
       [word |-> Word(TxtText, 32, 40, 35, 60, FontRoman),
        lines |-> {LineBody}, boxes |-> {}],
       [word |-> Word(TxtSee, 47, 54, 99, 120, FontRoman),
        lines |-> {LineSee}, boxes |-> {}],
       [word |-> Word(TxtEdge, 48, 72, 12, 100, FontRoman),
        lines |-> {LineEdge}, boxes |-> {}],
       [word |-> Word(TxtSub, 50, 54, 125, 140, FontRoman),
        lines |-> {LineSee}, boxes |-> {}],
       [word |-> Word(TxtH1, 52, 58, 12, 30, FontBold),
        lines |-> {LineH}, boxes |-> {BBoxH}],
       [word |-> Word(TxtH2, 52, 58, 60, 80, FontBold),
        lines |-> {LineH}, boxes |-> {BBoxH}],
       [word |-> Word(TxtNote, 52, 58, 130, 190, FontRoman),
        lines |-> {LineNote}, boxes |-> {}],
       [word |-> Word(TxtV1, 62, 68, 12, 30, FontRoman),
        lines |-> {LineV}, boxes |-> {BBoxH}],
       [word |-> Word(TxtEnd, 65, 73, 100, 140, FontRoman),
        lines |-> {LineEnd}, boxes |-> {}],
       [word |-> Word(TxtA, 78, 84, 60, 70, FontBold),
        lines |-> {}, boxes |-> {BBoxWide}],
       [word |-> Word(TxtB, 78, 84, 150, 160, FontRoman),
        lines |-> {}, boxes |-> {BBoxWide}] >>

Range(seq) == {seq[i] : i \in 1..Len(seq)}

\* the words of a page that holds the lines ls and the tables at bboxes
WordsOnPage(ls, bboxes) ==
    LET on == SelectSeq(PageLayout,
                        LAMBDA e : \/ e.lines \cap Range(ls) # {}
                                   \/ e.boxes \cap Range(bboxes) # {})
    IN  [k \in 1..Len(on) |-> on[k].word]

PageWidths == {200, 201}

OutputDocs == {"word_doc.docx", "out.docx"}

\* the subsequences of s with at most n elements
SubSeqsOf(s, n) ==
    LET picks == {S \in SUBSET (1..Len(s)) : Cardinality(S) <= n}
        Nth(S, k) == CHOOSE i \in S : Cardinality({j \in S : j < i}) = k - 1
    IN  {[k \in 1..Cardinality(S) |-> s[Nth(S, k)]] : S \in picks}

(***************************************************************************)
(* The python-docx document.  The body is a sequence of blocks; a block is *)
(* a paragraph or a table.  A paragraph made by add_line_paragraph carries  *)
(* in "of" the line it was made for (bookkeeping: python-docx keeps no such *)
(* field).  A table row maps each grid column j to a record: the column is  *)
(* covered by the <w:tc> that starts at column tc, and row.cells[j] is that *)
(* cell; width and paras are those of the <w:tc> starting at j.            *)
(***************************************************************************)
FontSize == 11
FontName == "Times New Roman"

Run(text, bold) == [text |-> text, bold |-> bold, size |-> FontSize, name |-> FontName]

Paragraph(alignment, runs, of) ==
    [kind |-> "paragraph", alignment |-> alignment, runs |-> runs, of |-> of]

\* doc.add_paragraph() with no text
BlankParagraph == Paragraph("NONE", << >>, None)

EmptyPara == [runs |-> << >>, alignment |-> "NONE"]

EmptyCell(j) == [tc |-> j, width |-> None, paras |-> <<EmptyPara>>]

\* doc.add_table(rows=rows, cols=cols)
add_table(rows, cols, style) ==
    [kind |-> "table", style |-> style,
     rows |-> [i \in 1..rows |-> [j \in 0..(cols - 1) |-> EmptyCell(j)]]]

\* the runs p.add_run(word["text"] + " ") adds for line_words, in order
LineRuns(line_words) ==
    [k \in 1..Len(line_words) |->
        Run(Append(line_words[k].text, " "), is_bold(line_words[k]))]

LineAlignment(line, page_center2) ==
    IF is_centered(line, page_center2) THEN "CENTER" ELSE "LEFT"

add_line_paragraph(d, line, line_words, page_center2) ==
    Append(d, Paragraph(LineAlignment(line, page_center2), LineRuns(line_words),
                        Some(line)))

(***************************************************************************)
(* python-docx cells of one row.                                           *)
(***************************************************************************)
\* seq[i] with Python's wrap-around for a negative index
PyIndex(i, n) == IF i < 0 THEN i + n ELSE i

\* CT_Tc._is_empty: one paragraph and no run in it
IsEmptyTc(cell) == Len(cell.paras) = 1 /\ cell.paras[1].runs = << >>

\* CT_Tc._remove_trailing_empty_p
RemoveTrailingEmptyP(paras) ==
    IF paras # << >> /\ paras[Len(paras)].runs = << >>
    THEN SubSeq(paras, 1, Len(paras) - 1) ELSE paras

\* CT_Tc._swallow_next_tc: the content and width of next go to top
SwallowTc(top, next) ==
    [top EXCEPT
        !.paras = IF IsEmptyTc(next) THEN @
                  ELSE RemoveTrailingEmptyP(@) \o next.paras,
        !.width = IF @ # None /\ next.width # None
                  THEN Some(@[1] + next.width[1]) ELSE @]

RECURSIVE SwallowFrom(_, _, _, _)
SwallowFrom(top, row, j, right) ==
    IF j > right THEN top
    ELSE SwallowFrom(IF row[j].tc = j THEN SwallowTc(top, row[j]) ELSE top,
                     row, j + 1, right)

\* row.cells[p].merge(row.cells[q]) within one row
CellMerge(row, p, q) ==
    LET a == row[p].tc
        b == row[q].tc
        left == Min({a, b})
        right == Max({j \in DOMAIN row : row[j].tc \in {a, b}})
        top == SwallowFrom(row[left], row, left + 1, right)
    IN  [j \in DOMAIN row |->
            IF j = left THEN top
            ELSE IF j > left /\ j <= right
                 THEN [tc |-> left, width |-> None, paras |-> << >>]
                 ELSE row[j]]

\* cell.width = Cm(w) for cell = row.cells[j]
CellSetWidth(row, j, w) == [row EXCEPT ![row[j].tc].width = Some(w)]

\* cell.text = value for cell = row.cells[j]
CellSetText(row, j, value) ==
    [row EXCEPT ![row[j].tc].paras =
        << [runs |-> << [text |-> value, bold |-> None] >>, alignment |-> "NONE"] >>]

\* lines 93-96: every paragraph of the cell gets run.bold and CENTER
CellStyle(row, j, bold) ==
    [row EXCEPT ![row[j].tc].paras =
        [k \in 1..Len(@) |->
            [runs |-> IF @[k].runs = << >>
                      THEN << [text |-> << >>, bold |-> Some(bold)] >>
                      ELSE [@[k].runs EXCEPT ![1].bold = Some(bold)],
             alignment |-> "CENTER"]]]

(***************************************************************************)
(* add_table_to_doc(doc, table, table_words, col_widths).                  *)
(***************************************************************************)
DefaultColWidths == <<1, 3, 8>>
MainColWidths == <<1, 3, 15>>

Rows(t) == Len(t)
Cols(t) == Len(t[1])

\* the position add_table_to_doc returns to
ReturnPc == IF caller = "main" THEN "tables" ELSE "returned"

\* line 75: value = table[r][c] if table[r][c] else None
CellValue(t, row, col) ==
    IF Truthy(t[row + 1][col + 1]) THEN t[row + 1][col + 1] ELSE None

\* col_widths[c] with the last width as a default instead of the IndexError
ColWidth_Clamped(cw, col) ==
    IF col < Len(cw) THEN Some(cw[col + 1]) ELSE Some(cw[Len(cw)])

\* line 79: col_widths[c]; None stands for the IndexError
ColWidth(cw, col) == IF col < Len(cw) THEN Some(cw[col + 1]) ELSE None

\* the index of prev_cell without the - 1
MergeTarget_OffByOne(col, mc) == col - mc

\* line 83: the index of prev_cell
MergeTarget(col, mc) == col - 1 - mc

\* merge_count without the reset of line 98
NextMergeCount_NoReset(present, col, mc) ==
    IF present THEN mc ELSE IF col > 0 THEN mc + 1 ELSE mc

\* lines 85 and 98: merge_count after the cell at column col
NextMergeCount(present, col, mc) ==
    IF present THEN 0 ELSE IF col > 0 THEN mc + 1 ELSE mc

\* lines 91-92: the first word whose stripped text is the stripped value
StyleWord(tw, value) ==
    LET hits == {k \in 1..Len(tw) : Strip(tw[k].text) = Strip(value)}
    IN  IF hits = {} THEN None ELSE Some(tw[Min(hits)])

\* the table under construction is the last block of the document
WordTable == doc[Len(doc)]

SetRow(d, row, newRow) == [d EXCEPT ![Len(d)].rows[row + 1] = newRow]

\* lines 64-70: entry, with the early return for an empty table
Enter(t, tw, cw) ==
    /\ table' = t
    /\ table_words' = tw
    /\ col_widths' = cw
    /\ IF t = << >>
       THEN /\ pc' = ReturnPc
            /\ ti' = IF caller = "main" THEN ti + 1 ELSE ti
            /\ UNCHANGED <<doc, r>>
       ELSE /\ doc' = Append(doc, add_table(Rows(t), Cols(t), "Table Grid"))
            /\ r' = 0
            /\ pc' = "row"
            /\ UNCHANGED ti
    /\ UNCHANGED <<c, merge_count>>

\* line 72-73: for r in range(rows): merge_count = 0
RowEnter ==
    /\ pc = "row"
    /\ r < Rows(table)
    /\ merge_count' = 0
    /\ c' = 0
    /\ pc' = "cell"
    /\ UNCHANGED <<inputs, doc, li, ti, caller, table, table_words, col_widths, r,
                   saved, printed>>

\* line 100 and the return: doc.add_paragraph() after the last row
RowsDone ==
    /\ pc = "row"
    /\ r >= Rows(table)
    /\ doc' = Append(doc, BlankParagraph)
    /\ pc' = ReturnPc
    /\ ti' = IF caller = "main" THEN ti + 1 ELSE ti
    /\ UNCHANGED <<inputs, li, caller, table, table_words, col_widths, r, c,
                   merge_count, saved, printed>>

\* line 74: the column loop of row r is exhausted
CellsDone ==
    /\ pc = "cell"
    /\ c >= Cols(table)
    /\ r' = r + 1
    /\ pc' = "row"
    /\ UNCHANGED <<inputs, doc, li, ti, caller, table, table_words, col_widths, c,
                   merge_count, saved, printed>>

\* line 79: col_widths[c] raises IndexError; nothing catches it
CellIndexError ==
    /\ pc = "cell"
    /\ c < Cols(table)
    /\ ColWidth(col_widths, c) = None
    /\ pc' = "error"
    /\ UNCHANGED <<inputs, doc, li, ti, caller, table, table_words, col_widths, r, c,
                   merge_count, saved, printed>>

\* lines 81-85: an absent value
CellAbsent ==
    /\ pc = "cell"
    /\ c < Cols(table)
    /\ ColWidth(col_widths, c) # None
    /\ CellValue(table, r, c) = None
    /\ LET row == CellSetWidth(WordTable.rows[r + 1], c, ColWidth(col_widths, c)[1])
       IN  IF c > 0
           THEN doc' = SetRow(doc, r,
                           CellMerge(row, PyIndex(MergeTarget(c, merge_count),
                                                  Cols(table)), c))
           ELSE doc' = SetRow(doc, r, row)
    /\ merge_count' = NextMergeCount(FALSE, c, merge_count)
    /\ c' = c + 1
    /\ UNCHANGED <<inputs, pc, li, ti, caller, table, table_words, col_widths, r,
                   saved, printed>>

\* lines 86-98: a value: text, style of the first matching word, reset
CellPresent ==
    /\ pc = "cell"
    /\ c < Cols(table)
    /\ ColWidth(col_widths, c) # None
    /\ CellValue(table, r, c) # None
    /\ LET value == CellValue(table, r, c)[1]
           row == CellSetText(CellSetWidth(WordTable.rows[r + 1], c,
                                           ColWidth(col_widths, c)[1]), c, value)
           w == StyleWord(table_words, value)
       IN  doc' = SetRow(doc, r, IF w = None THEN row
                                 ELSE CellStyle(row, c, is_bold(w[1])))
    /\ merge_count' = NextMergeCount(TRUE, c, merge_count)
    /\ c' = c + 1
    /\ UNCHANGED <<inputs, pc, li, ti, caller, table, table_words, col_widths, r,
                   saved, printed>>

(***************************************************************************)
(* main(pdf_path, output_doc).                                             *)
(***************************************************************************)
\* 2 * page_center, see the conventions
PageCenter2 == page.width

\* line 112: any(is_line_inside_table(line, tb_bbox) for tb_bbox in table_bboxes)
InsideAnyTable(line, bboxes) ==
    \E i \in 1..Len(bboxes) : is_line_inside_table(line, bboxes[i])

\* lines 110-117: one iteration of the line loop
LineLoop ==
    /\ pc = "lines"
    /\ li <= Len(lines)
    /\ LET line == lines[li]
           line_words == get_words_for_line(line, words)
       IN  doc' = IF ~InsideAnyTable(line, table_bboxes) /\ line_words # << >>
                  THEN add_line_paragraph(doc, line, line_words, PageCenter2)
                  ELSE doc
    /\ li' = li + 1
    /\ UNCHANGED <<inputs, pc, ti, caller, table, table_words, col_widths, r, c,
                   merge_count, saved, printed>>

LinesDone ==
    /\ pc = "lines"
    /\ li > Len(lines)
    /\ pc' = "tables"
    /\ UNCHANGED <<inputs, doc, li, ti, caller, table, table_words, col_widths, r, c,
                   merge_count, saved, printed>>

\* the number of bounding boxes the word w is inside of
Hits(w, bboxes) ==
    Cardinality({i \in 1..Len(bboxes) : is_line_inside_table(w, bboxes[i])})

\* lines 122-126: table_words of the table at position t of tables
RECURSIVE TableWordsFrom(_, _, _, _)
TableWordsFrom(ws, bboxes, k, n) ==
    IF k > Len(ws) THEN << >>
    ELSE IF n >= Hits(ws[k], bboxes) THEN TableWordsFrom(ws, bboxes, k + 1, 0)
    ELSE <<ws[k]>> \o TableWordsFrom(ws, bboxes, k, n + 1)

TableWordsOf(ws, bboxes, t) == TableWordsFrom(ws, bboxes, 1, 0)

\* lines 120-127: one iteration of the table loop, up to the call
TableLoop ==
    /\ pc = "tables"
    /\ ti <= Len(tables)
    /\ Enter(tables[ti], TableWordsOf(words, table_bboxes, ti), MainColWidths)
    /\ UNCHANGED <<inputs, li, caller, saved, printed>>

TablesDone ==
    /\ pc = "tables"
    /\ ti > Len(tables)
    /\ pc' = "save"
    /\ UNCHANGED <<inputs, doc, li, ti, caller, table, table_words, col_widths, r, c,
                   merge_count, saved, printed>>

\* doc.save(output_doc)
SaveTarget_Param(out) == out

\* line 130: the file doc.save writes
SaveTarget(out) == "word_file3.docx"

\* line 131
Message(out) == "Word document saved: " \o out

Save ==
    /\ pc = "save"
    /\ saved' = saved \cup {[path |-> SaveTarget(output_doc), doc |-> doc]}
    /\ printed' = Append(printed, Message(output_doc))
    /\ pc' = "done"
    /\ UNCHANGED <<inputs, doc, li, ti, caller, table, table_words, col_widths, r, c,
                   merge_count>>

Init ==
    /\ page \in [width : PageWidths]
    /\ lines \in SubSeqsOf(LinePool, MaxLines)
    /\ \E ts \in SubSeqsOf(TablePool, MaxTables) :
          /\ tables = [i \in 1..Len(ts) |-> ts[i].grid]
          /\ table_bboxes = [i \in 1..Len(ts) |-> ts[i].bbox]
    /\ words = WordsOnPage(lines, table_bboxes)
    /\ output_doc \in OutputDocs
    /\ doc = << >>
    /\ pc = "lines"
    /\ li = 1
    /\ ti = 1
    /\ caller = "main"
    /\ table = << >>
    /\ table_words = << >>
    /\ col_widths = << >>
    /\ r = 0
    /\ c = 0
    /\ merge_count = 0
    /\ saved = {}
    /\ printed = << >>

Next ==
    \/ LineLoop
    \/ LinesDone
    \/ TableLoop
    \/ RowEnter
    \/ CellsDone
    \/ CellIndexError
    \/ CellAbsent
    \/ CellPresent
    \/ RowsDone
    \/ TablesDone
    \/ Save

Spec == Init /\ [][Next]_vars

(***************************************************************************)
(* add_table_to_doc called on its own: every table of at most MaxCells     *)
(* cells, with the default column widths or a list as long as the widest   *)
(* table.                                                                  *)
(***************************************************************************)
CellValues == {None, Some(<< >>), Some(TxtA), Some(TxtB)}

Grids ==
    {<< >>} \cup
    UNION { [1..m -> [1..n -> CellValues]] :
            <<m, n>> \in {mn \in (1..MaxCells) \X (1..MaxCells) :
                             mn[1] * mn[2] <= MaxCells} }

WidthArgs == {DefaultColWidths, [i \in 1..MaxCells |-> 2]}

TableWordArgs ==
    { << >>,
      << Word(TxtA, 78, 84, 60, 70, FontBold),
         Word(TxtB, 78, 84, 150, 160, FontRoman),
         Word(TxtA, 90, 96, 60, 70, FontRoman) >> }

CallDirect ==
    /\ pc = "call"
    /\ Enter(table, table_words, col_widths)
    /\ UNCHANGED <<inputs, li, caller, saved, printed>>

InitTable ==
    /\ words = << >>
    /\ page = [width |-> 200]
    /\ lines = << >>
    /\ tables = << >>
    /\ table_bboxes = << >>
    /\ output_doc = "word_doc.docx"
    /\ doc = << >>
    /\ pc = "call"
    /\ li = 1
    /\ ti = 1
    /\ caller = "direct"
    /\ table \in Grids
    /\ table_words \in TableWordArgs
    /\ col_widths \in WidthArgs
    /\ r = 0
    /\ c = 0
    /\ merge_count = 0
    /\ saved = {}
    /\ printed = << >>

NextTable ==
    \/ CallDirect
    \/ RowEnter
    \/ CellsDone
    \/ CellIndexError
    \/ CellAbsent
    \/ CellPresent
    \/ RowsDone

SpecTable == InitTable /\ [][NextTable]_vars

(***************************************************************************)
(* Properties.                                                             *)
(***************************************************************************)
\* the positions in the document of the paragraphs made for line
ParasOf(line) ==
    {k \in 1..Len(doc) : doc[k].kind = "paragraph" /\ doc[k].of = Some(line)}

\* the words get_words_for_line is documented to return, spelled out
MatchedWords(line) == SelectSeq(words, LAMBDA w : Abs(w.top - line.top) < 3)

RunTexts(p) == [n \in 1..Len(p.runs) |-> p.runs[n].text]

\* the rectangle of line and the rectangle bbox have no point in common
FullyOutside(line, bbox) ==
    \/ line.x1 < bbox.x0
    \/ line.x0 > bbox.x1
    \/ line.bottom < bbox.top
    \/ line.top > bbox.bottom

\* C1: every line already walked by main's line loop that is fully outside
\* every table bounding box and has at least one matching word has exactly
\* one paragraph in the document, whose runs are the matching words in the
\* order of the word list.
C1_OutsideLineOneParagraph ==
    \A i \in 1..Len(lines) :
        ( /\ i < li
          /\ \A t \in 1..Len(table_bboxes) : FullyOutside(lines[i], table_bboxes[t])
          /\ MatchedWords(lines[i]) # << >> )
        => /\ Cardinality(ParasOf(lines[i])) = 1
           /\ \A k \in ParasOf(lines[i]) :
                 RunTexts(doc[k]) =
                     [n \in 1..Len(MatchedWords(lines[i])) |->
                         Append(MatchedWords(lines[i])[n].text, " ")]

\* top >= table top - 2 and bottom <= table bottom + 2 for some table
WithinSomeTable(line) ==
    \E t \in 1..Len(table_bboxes) :
        /\ line.top >= table_bboxes[t].top - 2
        /\ line.bottom <= table_bboxes[t].bottom + 2

\* C2: a line whose top is >= table top - 2 and whose bottom is <= table
\* bottom + 2 for some detected table never has a paragraph in the document.
C2_InsideLineNoParagraph ==
    \A i \in 1..Len(lines) : WithinSomeTable(lines[i]) => ParasOf(lines[i]) = {}

\* the line loop has walked a line that sits on the tolerance (top = table
\* top - 2, bottom = table bottom + 2) and has matching words
C2_Witness ==
    /\ pc = "tables"
    /\ \E i \in 1..Len(lines) :
          /\ MatchedWords(lines[i]) # << >>
          /\ \E t \in 1..Len(table_bboxes) :
                /\ lines[i].top = table_bboxes[t].top - 2
                /\ lines[i].bottom = table_bboxes[t].bottom + 2

\* the length of the common vertical extent of line and bbox
VerticalOverlap(line, bbox) ==
    Min({line.bottom, bbox.bottom}) - Max({line.top, bbox.top})

\* C5: no line that has a paragraph in the document shares more than the
\* tolerance of 2 of its vertical extent with a table bounding box.
C5_EmittedLinesClearOfTables ==
    \A k \in 1..Len(doc) :
        (doc[k].kind = "paragraph" /\ doc[k].of # None)
        => \A t \in 1..Len(table_bboxes) :
               VerticalOverlap(doc[k].of[1], table_bboxes[t]) <= 2

\* C6: while main's call of add_table_to_doc for the table at position ti
\* runs, every word of table_words lies vertically inside that table's
\* bounding box, within the tolerance of 2.
C6_TableWordsInOwnBBox ==
    (caller = "main" /\ pc \in {"row", "cell"})
    => \A k \in 1..Len(table_words) :
           /\ table_words[k].top >= table_bboxes[ti].top - 2
           /\ table_words[k].bottom <= table_bboxes[ti].bottom + 2

\* a detected table has more columns than main's column-width list has widths
WideTable ==
    \E t \in 1..Len(tables) :
        tables[t] # << >> /\ Len(tables[t][1]) > Len(MainColWidths)

\* C7: when a detected table has more columns than the column-width list,
\* the run never reaches the save step, nothing is saved or printed, and the
\* run can only stop in the error.
C7_WideTableNeverSaved ==
    WideTable
    => /\ saved = {}
       /\ printed = << >>
       /\ pc \notin {"save", "done"}
       /\ (~ENABLED Next) => pc = "error"

\* the run has stopped with the IndexError at the first column without a width
C7_Witness ==
    /\ WideTable
    /\ pc = "error"
    /\ c = Len(MainColWidths)
    /\ doc # << >>

\* C8: whatever output_doc is, a finished run has saved exactly one file,
\* named word_file3.docx and holding the document, and has printed one line
\* naming output_doc; before that nothing is saved.
C8_SaveTargetFixed ==
    /\ pc = "done"
       => /\ saved = {[path |-> "word_file3.docx", doc |-> doc]}
          /\ printed = <<"Word document saved: " \o output_doc>>
    /\ pc # "done" => saved = {}

\* a run with an output_doc other than the default has finished
C8_Witness == pc = "done" /\ output_doc = "out.docx" /\ doc # << >>

\* C9: a paragraph made for a line is centered iff |(x0+x1)/2 - width/2| < 20,
\* that is iff |(x0+x1) - width| < 40, and left-aligned otherwise.
C9_CenteredIffWithin20 ==
    \A k \in 1..Len(doc) :
        (doc[k].kind = "paragraph" /\ doc[k].of # None)
        => LET line == doc[k].of[1]
               near == Abs((line.x0 + line.x1) - page.width) < 40
           IN  /\ near => doc[k].alignment = "CENTER"
               /\ ~near => doc[k].alignment = "LEFT"

\* a paragraph exists for a line at a distance of exactly 20, and one for a
\* line at a distance below 20
C9_Witness ==
    /\ \E k \in 1..Len(doc) :
          /\ doc[k].kind = "paragraph" /\ doc[k].of # None
          /\ Abs((doc[k].of[1].x0 + doc[k].of[1].x1) - page.width) = 40
    /\ \E k \in 1..Len(doc) :
          /\ doc[k].kind = "paragraph" /\ doc[k].of # None
          /\ Abs((doc[k].of[1].x0 + doc[k].of[1].x1) - page.width) = 39

(***************************************************************************)
(* Properties of add_table_to_doc called on its own (SpecTable: the table  *)
(* is the first block of the document).                                    *)
(***************************************************************************)
\* the value at row i, column j is None or ""
Absent(i, j) == ~Truthy(table[i + 1][j + 1])

\* the cell at row i, column j has been walked
Walked(i, j) ==
    /\ pc \in {"row", "cell", "error", "returned"}
    /\ i \in 0..(Rows(table) - 1)
    /\ j \in 0..(Cols(table) - 1)
    /\ \/ i < r
       \/ i = r /\ pc \in {"cell", "error"} /\ j < c

BuiltRow(i) == doc[1].rows[i + 1]

\* the column before the run of absent cells that column j of row i is in:
\* the nearest non-empty column to its left, column 0 if there is none
RunTarget(i, j) ==
    LET present == {k \in 0..(j - 1) : ~Absent(i, k)}
    IN  IF present = {} THEN 0 ELSE Max(present)

\* C10: when the walk is about to merge an absent cell at column c > 0, the
\* index c - 1 - merge_count lies in 0..c-1 and is the column before the run
\* of absent cells (the nearest non-empty column to the left, else column 0);
\* and every walked absent cell at a column > 0 is covered by the cell that
\* starts at that column.
C10_MergeTargetInRange ==
    /\ ( /\ pc = "cell"
         /\ c > 0
         /\ c < Cols(table)
         /\ c < Len(col_widths)
         /\ Absent(r, c) )
       => /\ c - 1 - merge_count \in 0..(c - 1)
          /\ c - 1 - merge_count = RunTarget(r, c)
    /\ table # << >>
       => \A i \in 0..(Rows(table) - 1), j \in 1..(Cols(table) - 1) :
              (Walked(i, j) /\ Absent(i, j))
              => BuiltRow(i)[j].tc = RunTarget(i, j)

\* the walk is at the second absent cell of a run that follows a non-empty
\* cell that itself follows an earlier merged run
C10_Witness ==
    /\ pc = "cell"
    /\ c = 4
    /\ c < Cols(table)
    /\ c < Len(col_widths)
    /\ Absent(r, 1) /\ ~Absent(r, 2) /\ Absent(r, 3) /\ Absent(r, 4)
    /\ merge_count = 1

\* some run of the cell has text
HasText(cell) ==
    \E k \in 1..Len(cell.paras) :
        \E n \in 1..Len(cell.paras[k].runs) : cell.paras[k].runs[n].text # << >>

\* the columns the cell that starts at column j of row spans
Span(row, j) == {k \in DOMAIN row : row[k].tc = j}

\* the cells of row that start at their own column and have text
Populated(row) == {j \in DOMAIN row : row[j].tc = j /\ HasText(row[j])}

\* the texts of the runs of the first paragraph of the cell starting at j
CellTexts(row, j) ==
    [n \in 1..Len(row[j].paras[1].runs) |-> row[j].paras[1].runs[n].text]

\* the rule of C3 without its example: a walked absent cell has no text of
\* its own and, at a column > 0, is part of the cell that covers the column
\* to its left; merge_count is 0 right after a non-empty cell
C3_Rule ==
    /\ table # << >>
       => \A i \in 0..(Rows(table) - 1), j \in 0..(Cols(table) - 1) :
              (Walked(i, j) /\ Absent(i, j))
              => /\ BuiltRow(i)[j].tc = j => ~HasText(BuiltRow(i)[j])
                 /\ j > 0 => /\ BuiltRow(i)[j].tc < j
                             /\ BuiltRow(i)[j].tc = BuiltRow(i)[j - 1].tc
    /\ (pc = "cell" /\ c > 0 /\ ~Absent(r, c - 1)) => merge_count = 0

\* add_table_to_doc has returned from the row [None, "A", None, "B"]
C3_ExampleDone == pc = "returned" /\ table = GridWide

\* C3 as stated: the rule, and the row [None, "A", None, "B"] yields 2
\* populated cells, "A" spanning columns 0-1 and "B" spanning columns 2-3.
C3_AsStated ==
    /\ C3_Rule
    /\ C3_ExampleDone
       => \E a, b \in DOMAIN BuiltRow(0) :
              /\ Populated(BuiltRow(0)) = {a, b}
              /\ CellTexts(BuiltRow(0), a) = <<TxtA>>
              /\ Span(BuiltRow(0), a) = {0, 1}
              /\ CellTexts(BuiltRow(0), b) = <<TxtB>>
              /\ Span(BuiltRow(0), b) = {2, 3}

\* C3 amended: the rule, and the row [None, "A", None, "B"] yields 2 populated
\* cells, "A" spanning columns 1-2 and "B" in column 3 alone, beside an empty
\* cell of its own in column 0.
C3_Amended ==
    /\ C3_Rule
    /\ C3_ExampleDone
       => /\ Populated(BuiltRow(0)) = {1, 3}
          /\ CellTexts(BuiltRow(0), 1) = <<TxtA>>
          /\ Span(BuiltRow(0), 1) = {1, 2}
          /\ CellTexts(BuiltRow(0), 3) = <<TxtB>>
          /\ Span(BuiltRow(0), 3) = {3}
          /\ Span(BuiltRow(0), 0) = {0}
          /\ ~HasText(BuiltRow(0)[0])

\* the example row has been built with a width for each of its 4 columns
C3_Witness == C3_ExampleDone /\ Len(doc) = 2 /\ Len(col_widths) >= 4

(***************************************************************************)
(* The round trip of C4: the page holds the bold centered line TITLE, the   *)
(* plain left line Body text and the table [["H1","H2"],["v1",None]], whose *)
(* two text lines the extractor reports as lines too.                      *)
(***************************************************************************)
C4_Page ==
    /\ lines = <<LineTitle, LineBody, LineH, LineV>>
    /\ tables = <<GridH>>
    /\ table_bboxes = <<BBoxH>>

C4_Done == C4_Page /\ pc = "done"

\* the blocks of the document of the given kind, in order
BlocksOf(kind) == SelectSeq(doc, LAMBDA b : b.kind = kind)

C4_Title ==
    Paragraph("CENTER", <<Run(Append(TxtTitle, " "), TRUE)>>, Some(LineTitle))

C4_Body ==
    Paragraph("LEFT", <<Run(Append(TxtBody, " "), FALSE),
                        Run(Append(TxtText, " "), FALSE)>>, Some(LineBody))

\* 1 table of 2 rows and 2 columns, "v1" covering both columns of row 2
C4_TableAsStated ==
    /\ Len(BlocksOf("table")) = 1
    /\ LET t == BlocksOf("table")[1]
       IN  /\ Len(t.rows) = 2
           /\ \A i \in 1..2 : DOMAIN t.rows[i] = 0..1
           /\ Span(t.rows[1], 0) = {0} /\ CellTexts(t.rows[1], 0) = <<TxtH1>>
           /\ Span(t.rows[1], 1) = {1} /\ CellTexts(t.rows[1], 1) = <<TxtH2>>
           /\ Span(t.rows[2], 0) = {0, 1} /\ CellTexts(t.rows[2], 0) = <<TxtV1>>

\* C4 as stated: the saved document has exactly 2 paragraphs, TITLE centered
\* and bold then Body text left-aligned and not bold, and exactly 1 table of
\* 2 rows and 2 columns whose second row shows "v1" across both columns.
C4_AsStated ==
    C4_Done
    => /\ BlocksOf("paragraph") = <<C4_Title, C4_Body>>
       /\ C4_TableAsStated

\* C4 amended: the saved document is the two paragraphs, then the table, then
\* the blank paragraph add_table_to_doc appends after a table: 3 paragraphs,
\* of which exactly the first 2 come from lines.
C4_Amended ==
    C4_Done
    => /\ BlocksOf("paragraph") = <<C4_Title, C4_Body, BlankParagraph>>
       /\ Len(doc) = 4
       /\ doc[1] = C4_Title
       /\ doc[2] = C4_Body
       /\ doc[3].kind = "table"
       /\ doc[4] = BlankParagraph
       /\ C4_TableAsStated
       /\ saved = {[path |-> "word_file3.docx", doc |-> doc]}

\* the run on the page of C4 has finished and saved a document
C4_Witness == C4_Done /\ saved # {}

====
